---- MODULE Spec2Model ----
(***************************************************************************)
(* Model of the ensembling scripts of the repository.                      *)
(*                                                                         *)
(* make_weighted_submission.py: one run of main(), from the existence test *)
(* of the metadata file to the final to_csv.  Every read of a file is one  *)
(* step, so that the order of the reads, the place where a run fails and   *)
(* the moment the output is written are all visible in the state.          *)
(*                                                                         *)
(* make_majority_submission.py: one run of main(), in the same steps.      *)
(*                                                                         *)
(* extract_submissions.py: runs of the script, one step each, between      *)
(* commits to the repository and manual edits of the metadata file.        *)
(*                                                                         *)
(* Python floats are modelled as exact rationals [num, den] in lowest      *)
(* terms (den > 0); NaN, pandas' blank cell, is the "rational" 0/0.        *)
(***************************************************************************)
EXTENDS Integers, Sequences, FiniteSets, TLC

\* ------------------------------------------------------------------ bounds
\* Number of rows of submissions_metadata.csv.
NumSources == 3
\* Row identifiers of the prediction files are drawn from 1..MaxRowId.
MaxRowId == 2

\* -------------------------------------------------------- float arithmetic
RECURSIVE GCD(_, _)
GCD(a, b) == IF b = 0 THEN a ELSE GCD(b, a % b)

Abs(x) == IF x < 0 THEN -x ELSE x

\* The float n/d (d > 0), in lowest terms.
Float(n, d) ==
    LET g == GCD(Abs(n), d) IN [num |-> n \div g, den |-> d \div g]

NaN == [num |-> 0, den |-> 0]

notna(x) == x.den # 0

FAdd(x, y) == Float(x.num * y.den + y.num * x.den, x.den * y.den)

FSub(x, y) == Float(x.num * y.den - y.num * x.den, x.den * y.den)

FMul(x, y) == Float(x.num * y.num, x.den * y.den)

\* x / y for y > 0.
FDiv(x, y) == Float(x.num * y.den, x.den * y.num)

\* Comparisons; as in IEEE arithmetic, one with NaN is false.
FGeq(x, y) == notna(x) /\ notna(y) /\ x.num * y.den >= y.num * x.den

FLeq(x, y) == notna(x) /\ notna(y) /\ x.num * y.den <= y.num * x.den

\* np.power(x, k) for a whole exponent k >= 0.
RECURSIVE FPow(_, _)
FPow(x, k) == IF k = 0 THEN Float(1, 1) ELSE FMul(x, FPow(x, k - 1))

\* ndarray.sum() of a sequence of floats.
RECURSIVE FSum(_)
FSum(s) == IF s = <<>> THEN Float(0, 1) ELSE FAdd(Head(s), FSum(Tail(s)))

\* --------------------------------------------------------------- CONFIG
ID_COL == "row_id"
PRED_COL_NAME == "target"

ALPHA == 4
MIN_SCORE == Float(70, 100)
BAD_LIMIT == Float(4, 10)
BAD_WEIGHT == Float(9, 10)
THRESHOLD == Float(5, 10)

\* ------------------------------------------------------------ the inputs
\* The kaggle_score cells a metadata row may hold: blank, a bad score (the
\* boundary BAD_LIMIT itself), a score in neither tier, and two good scores
\* (the boundary MIN_SCORE itself and a higher one).
ScoreCells == {NaN, Float(4, 10), Float(5, 10), Float(7, 10), Float(9, 10)}

\* output_file of the i-th metadata row: the rows name distinct files.
FileNames == 1..NumSources

RowIds == 1..MaxRowId

Labels == {0, 1}

\* All sequences over S without repetition (a table's row ids are unique).
RECURSIVE InjSeqs(_)
InjSeqs(S) ==
    {<<>>} \cup UNION {{<<x>> \o t : t \in InjSeqs(S \ {x})} : x \in S}

\* The well-formed prediction tables: rows in any order, unique row ids.
Tables ==
    UNION {{[i \in 1..Len(ids) |-> [row_id |-> ids[i], target |-> lab[i]]] :
              lab \in [1..Len(ids) -> Labels]} : ids \in InjSeqs(RowIds)}

\* What a path under analyzing/ may hold: nothing, a CSV that lacks one of
\* the two columns, or a well-formed prediction table.
NoFile == [exists |-> FALSE, columns |-> {}, rows |-> <<>>]

FileContents ==
    {NoFile}
    \cup {[exists |-> TRUE, columns |-> {c}, rows |-> <<>>] :
            c \in {ID_COL, PRED_COL_NAME}}
    \cup {[exists |-> TRUE, columns |-> {ID_COL, PRED_COL_NAME}, rows |-> t] :
            t \in Tables}

\* ----------------------------------------------------------------- state
VARIABLES
    metaExists,     \* os.path.exists(META_PATH)
    metadata,       \* the rows of submissions_metadata.csv
    files,          \* the files under analyzing/ the run has opened so far
    pc,             \* position of main()
    good_files,     \* output_file of the good rows, in metadata order
    good_scores,
    bad_files,
    good_weights,
    idx,            \* enumerate() index of the running load loop (0-based)
    df_final,       \* the merged frame, or None
    good_pred_cols,
    bad_pred_cols,
    error,          \* the exception that ended the run, if any
    output,         \* submissions/random_Zuha.csv as written by this run
    top_files,      \* make_majority_submission: `files`, the top-N file names
    ensemble_df,    \* make_majority_submission: the merged frame, or None
    pred_cols,      \* make_majority_submission: pred_cols
    git             \* extract_submissions: the git history of submissions/

vars == <<metaExists, metadata, files, pc, good_files, good_scores, bad_files,
          good_weights, idx, df_final, good_pred_cols, bad_pred_cols, error,
          output, top_files, ensemble_df, pred_cols, git>>

\* The state of the two other scripts, which make_weighted_submission.py
\* neither reads nor writes.
otherScripts == <<top_files, ensemble_df, pred_cols, git>>

\* The locals of make_weighted_submission.main().
weightedLocals == <<good_files, good_scores, bad_files, good_weights, df_final,
                    good_pred_cols, bad_pred_cols>>

None == [isNone |-> TRUE, rows |-> <<>>]

Frame(rows) == [isNone |-> FALSE, rows |-> rows]

NoError == [raised |-> "none", msg |-> "none", path |-> 0]

\* An exception: its class, which raise statement it is, and the prediction
\* file its message names (0 when the message names none).
Raise(kind, msg, path) == [raised |-> kind, msg |-> msg, path |-> path]

Unwritten == [written |-> FALSE, rows |-> <<>>]

\* The metadata files: NumSources rows, row i naming file i.
MetadataFiles ==
    {[i \in FileNames |-> [output_file |-> i, kaggle_score |-> c[i]]] :
        c \in [FileNames -> ScoreCells]}

\* The state at the entry of main().  A metadata file that does not exist
\* has no rows to read: its cells are left blank.
Init ==
    /\ metaExists \in BOOLEAN
    /\ metadata \in MetadataFiles
    /\ ~metaExists => \A i \in FileNames : metadata[i].kaggle_score = NaN
    /\ files = <<>>
    /\ pc = "start"
    /\ good_files = <<>>
    /\ good_scores = <<>>
    /\ bad_files = <<>>
    /\ good_weights = <<>>
    /\ idx = 0
    /\ df_final = None
    /\ good_pred_cols = <<>>
    /\ bad_pred_cols = <<>>
    /\ error = NoError
    /\ output = Unwritten
    /\ top_files = <<>>
    /\ ensemble_df = None
    /\ pred_cols = <<>>
    /\ git = <<>>

\* ------------------------------------------------- 1-3. source selection
\* meta[meta["kaggle_score"].notna()]
Scored(meta) == SelectSeq(meta, LAMBDA r : notna(r.kaggle_score))

\* The good rows taken from the frame sorted by score, best first (the order
\* main() prints them in), instead of in metadata order.
RECURSIVE ByScoreDescending(_)
ByScoreDescending(meta) ==
    IF meta = <<>> THEN <<>>
    ELSE LET best == CHOOSE i \in DOMAIN meta : \A j \in DOMAIN meta :
                        /\ FGeq(meta[i].kaggle_score, meta[j].kaggle_score)
                        /\ meta[i].kaggle_score = meta[j].kaggle_score => i <= j
         IN  <<meta[best]>>
             \o ByScoreDescending([k \in 1..(Len(meta) - 1) |->
                                     IF k < best THEN meta[k] ELSE meta[k + 1]])

GoodMetaByScore(meta) ==
    ByScoreDescending(SelectSeq(meta, LAMBDA r : FGeq(r.kaggle_score, MIN_SCORE)))

\* The good tier cut at the wrong constant: BAD_LIMIT in place of MIN_SCORE.
GoodMetaAtBadLimit(meta) ==
    SelectSeq(meta, LAMBDA r : FGeq(r.kaggle_score, BAD_LIMIT))

\* meta[meta["kaggle_score"] >= MIN_SCORE]
GoodMeta(meta) == SelectSeq(meta, LAMBDA r : FGeq(r.kaggle_score, MIN_SCORE))

\* meta[meta["kaggle_score"] <= BAD_LIMIT]
BadMeta(meta) == SelectSeq(meta, LAMBDA r : FLeq(r.kaggle_score, BAD_LIMIT))

\* good_meta["output_file"].tolist()
OutputFiles(meta) == [i \in DOMAIN meta |-> meta[i].output_file]

\* good_meta["kaggle_score"].values
KaggleScores(meta) == [i \in DOMAIN meta |-> meta[i].kaggle_score]

\* The powers divided by the sum over every scored metadata row, bad rows
\* included, instead of over the good tier.
GoodWeightsOverAllScored(scores) ==
    LET p == [i \in DOMAIN scores |-> FPow(scores[i], ALPHA)]
        all == KaggleScores(Scored(metadata))
    IN  [i \in DOMAIN p |->
            FDiv(p[i], FSum([j \in DOMAIN all |-> FPow(all[j], ALPHA)]))]

\* np.power(good_scores, ALPHA), then divided by its own sum.
GoodWeights(scores) ==
    LET p == [i \in DOMAIN scores |-> FPow(scores[i], ALPHA)]
    IN  [i \in DOMAIN p |-> FDiv(p[i], FSum(p))]

\* The output file created before the checks: a failing run leaves it behind.
FailAfterWrite(e) ==
    /\ pc' = "failed"
    /\ error' = e
    /\ output' = [written |-> TRUE, rows |-> <<>>]

\* raise: the run ends there, and nothing after it, to_csv in particular,
\* is executed.
Fail(e) ==
    /\ pc' = "failed"
    /\ error' = e
    /\ UNCHANGED output

MetadataNotFound ==
    /\ pc = "start"
    /\ ~metaExists
    /\ Fail(Raise("FileNotFoundError", "metadata", 0))
    /\ UNCHANGED otherScripts
    /\ UNCHANGED <<metaExists, metadata, files, good_files, good_scores,
                   bad_files, good_weights, idx, df_final, good_pred_cols,
                   bad_pred_cols>>

NoScoredRows ==
    /\ pc = "start"
    /\ metaExists
    /\ Scored(metadata) = <<>>
    /\ Fail(Raise("ValueError", "no_score", 0))
    /\ UNCHANGED otherScripts
    /\ UNCHANGED <<metaExists, metadata, files, good_files, good_scores,
                   bad_files, good_weights, idx, df_final, good_pred_cols,
                   bad_pred_cols>>

NoGoodSubmissions ==
    /\ pc = "start"
    /\ metaExists
    /\ Scored(metadata) # <<>>
    /\ GoodMeta(Scored(metadata)) = <<>>
    /\ Fail(Raise("ValueError", "no_good", 0))
    /\ UNCHANGED otherScripts
    /\ UNCHANGED <<metaExists, metadata, files, good_files, good_scores,
                   bad_files, good_weights, idx, df_final, good_pred_cols,
                   bad_pred_cols>>

SelectSources ==
    /\ pc = "start"
    /\ metaExists
    /\ LET meta == Scored(metadata)
           good_meta == GoodMeta(meta)
           bad_meta == BadMeta(meta)
       IN  /\ meta # <<>>
           /\ good_meta # <<>>
           /\ good_files' = OutputFiles(good_meta)
           /\ good_scores' = KaggleScores(good_meta)
           /\ bad_files' = OutputFiles(bad_meta)
           /\ good_weights' = GoodWeights(KaggleScores(good_meta))
    /\ pc' = "load_good"
    /\ idx' = 0
    /\ UNCHANGED otherScripts
    /\ UNCHANGED <<metaExists, metadata, files, df_final, good_pred_cols,
                   bad_pred_cols, error, output>>

\* ------------------------------------------- 4. load and merge submissions
\* pd.read_csv(fpath) and the tests before it: the run sees what the path
\* holds, once.
Open(fname, content) ==
    /\ fname \notin DOMAIN files
    /\ files' = files @@ (fname :> content)

HasColumns(content) ==
    ID_COL \in content.columns /\ PRED_COL_NAME \in content.columns

\* df[[ID_COL, PRED_COL_NAME]].rename(columns={PRED_COL_NAME: col}) for the
\* first good file: the frame a later merge extends.  A row of the frame
\* holds its good_* cells and its bad_* cells, in column order.
Renamed(t) ==
    [i \in DOMAIN t |-> [row_id |-> t[i].row_id, good |-> <<t[i].target>>,
                         bad |-> <<>>]]

\* The rows of table t whose ID_COL equals id, in t's order.
Matching(t, id) == SelectSeq(t, LAMBDA r : r.row_id = id)

\* The rows left.merge(df, on=ID_COL, how="inner") makes of one left row.
MergeRow(l, t, tier) ==
    LET m == Matching(t, l.row_id)
    IN  [i \in DOMAIN m |->
            IF tier = "good"
            THEN [l EXCEPT !.good = Append(@, m[i].target)]
            ELSE [l EXCEPT !.bad = Append(@, m[i].target)]]

\* how="left" in place of how="inner": a left row without a match is kept,
\* its missing cell imputed with label 0.
RECURSIVE MergeLeft(_, _, _)
MergeLeft(left, t, tier) ==
    IF left = <<>> THEN <<>>
    ELSE LET l == Head(left)
             kept == IF Matching(t, l.row_id) # <<>> THEN MergeRow(l, t, tier)
                     ELSE MergeRow(l, <<[row_id |-> l.row_id, target |-> 0]>>,
                                   tier)
         IN  kept \o MergeLeft(Tail(left), t, tier)

\* left.merge(df, on=ID_COL, how="inner"): the left rows that have a match,
\* in the left frame's order, each with the new column's cell.
RECURSIVE Merge(_, _, _)
Merge(left, t, tier) ==
    IF left = <<>> THEN <<>>
    ELSE MergeRow(Head(left), t, tier) \o Merge(Tail(left), t, tier)

\* df if df_final is None else df_final.merge(df, on=ID_COL, how="inner")
MergeGood(frame, t) ==
    IF frame.isNone THEN Frame(Renamed(t))
    ELSE Frame(Merge(frame.rows, t, "good"))

\* The bad table joined with how="left": a row it lacks is kept.
MergeBadLeft(frame, t) == Frame(MergeLeft(frame.rows, t, "bad"))

\* df_final.merge(df, on=ID_COL, how="inner") of the bad loop.
MergeBad(frame, t) == Frame(Merge(frame.rows, t, "bad"))

\* Where main() goes after the iteration idx of the good loop, and of the
\* bad loop.
AfterGood ==
    IF idx + 1 < Len(good_files)
    THEN pc' = "load_good" /\ idx' = idx + 1
    ELSE IF bad_files # <<>>
         THEN pc' = "load_bad" /\ idx' = 0
         ELSE pc' = "ensemble" /\ idx' = 0

AfterBad ==
    IF idx + 1 < Len(bad_files)
    THEN pc' = "load_bad" /\ idx' = idx + 1
    ELSE pc' = "ensemble" /\ idx' = 0

GoodModelNotFound ==
    /\ pc = "load_good"
    /\ \E content \in FileContents :
        /\ ~content.exists
        /\ Open(good_files[idx + 1], content)
    /\ Fail(Raise("FileNotFoundError", "good_not_found", good_files[idx + 1]))
    /\ UNCHANGED otherScripts
    /\ UNCHANGED <<metaExists, metadata, good_files, good_scores, bad_files,
                   good_weights, idx, df_final, good_pred_cols, bad_pred_cols>>

GoodModelMissingColumn ==
    /\ pc = "load_good"
    /\ \E content \in FileContents :
        /\ content.exists
        /\ ~HasColumns(content)
        /\ Open(good_files[idx + 1], content)
        /\ Fail(Raise("ValueError",
                      IF ID_COL \notin content.columns
                      THEN "no_id_col" ELSE "no_pred_col",
                      good_files[idx + 1]))
    /\ UNCHANGED otherScripts
    /\ UNCHANGED <<metaExists, metadata, good_files, good_scores, bad_files,
                   good_weights, idx, df_final, good_pred_cols, bad_pred_cols>>

LoadGoodModel ==
    /\ pc = "load_good"
    /\ \E content \in FileContents :
        /\ content.exists
        /\ HasColumns(content)
        /\ Open(good_files[idx + 1], content)
        /\ df_final' = MergeGood(df_final, content.rows)
    /\ good_pred_cols' = Append(good_pred_cols, idx)
    /\ AfterGood
    /\ UNCHANGED otherScripts
    /\ UNCHANGED <<metaExists, metadata, good_files, good_scores, bad_files,
                   good_weights, bad_pred_cols, error, output>>

\* The bad loop raising as the good loop does, instead of skipping.
BadModelFatal ==
    /\ pc = "load_bad"
    /\ \E content \in FileContents :
        /\ ~content.exists \/ ~HasColumns(content)
        /\ Open(bad_files[idx + 1], content)
    /\ Fail(Raise("ValueError", "bad_not_loaded", bad_files[idx + 1]))
    /\ UNCHANGED otherScripts
    /\ UNCHANGED <<metaExists, metadata, good_files, good_scores, bad_files,
                   good_weights, idx, df_final, good_pred_cols, bad_pred_cols>>

\* The two `continue` branches of the bad loop: a warning, no column.
SkipBadModel ==
    /\ pc = "load_bad"
    /\ \E content \in FileContents :
        /\ ~content.exists \/ ~HasColumns(content)
        /\ Open(bad_files[idx + 1], content)
    /\ AfterBad
    /\ UNCHANGED otherScripts
    /\ UNCHANGED <<metaExists, metadata, good_files, good_scores, bad_files,
                   good_weights, df_final, good_pred_cols, bad_pred_cols,
                   error, output>>

LoadBadModel ==
    /\ pc = "load_bad"
    /\ \E content \in FileContents :
        /\ content.exists
        /\ HasColumns(content)
        /\ Open(bad_files[idx + 1], content)
        /\ df_final' = MergeBad(df_final, content.rows)
    /\ bad_pred_cols' = Append(bad_pred_cols, idx)
    /\ AfterBad
    /\ UNCHANGED otherScripts
    /\ UNCHANGED <<metaExists, metadata, good_files, good_scores, bad_files,
                   good_weights, good_pred_cols, error, output>>

\* ------------------------------------ 5-7. ensemble score, label and save
\* .astype(float) of a 0/1 cell.
AsFloat(label) == Float(label, 1)

\* (df_final[good_pred_cols].values * good_weight_vec).sum(axis=1), one row.
GoodVote(row, weights) ==
    FSum([i \in DOMAIN row.good |-> FMul(AsFloat(row.good[i]), weights[i])])

\* df_final[bad_pred_cols].mean(axis=1), or zeros when there is no bad column.
BadVote(row, cols) ==
    IF cols # <<>>
    THEN FDiv(FSum([i \in DOMAIN row.bad |-> AsFloat(row.bad[i])]),
              Float(Len(row.bad), 1))
    ELSE Float(0, 1)

\* good_vote - BAD_WEIGHT * bad_vote
FinalScore(row, weights, cols) ==
    FSub(GoodVote(row, weights), FMul(BAD_WEIGHT, BadVote(row, cols)))

\* > in place of >=.
HardLabelStrict(score) ==
    IF FGeq(score, THRESHOLD) /\ score # THRESHOLD THEN 1 ELSE 0

\* (final_score >= THRESHOLD).astype(int)
HardLabel(score) == IF FGeq(score, THRESHOLD) THEN 1 ELSE 0

\* Insertion of row r into a frame sorted by ID_COL.
RECURSIVE Insert(_, _)
Insert(r, s) ==
    IF s = <<>> THEN <<r>>
    ELSE IF r.row_id < Head(s).row_id THEN <<r>> \o s
         ELSE <<Head(s)>> \o Insert(r, Tail(s))

\* The frame saved in merge order, sort_values left out.
Unsorted(s) == s

\* DataFrame.sort_values(ID_COL)
RECURSIVE SortValues(_)
SortValues(s) ==
    IF s = <<>> THEN <<>> ELSE Insert(Head(s), SortValues(Tail(s)))

\* df_final[[ID_COL, PRED_COL_NAME]] after step 6.
Labelled(rows, weights, cols) ==
    [i \in DOMAIN rows |->
        [row_id |-> rows[i].row_id,
         target |-> HardLabel(FinalScore(rows[i], weights, cols))]]

\* The frame main() hands to to_csv.
FinalDf(rows, weights, cols) == SortValues(Labelled(rows, weights, cols))

\* Steps 5 to 7: the None test, the votes, the label and to_csv.
Ensemble ==
    /\ pc = "ensemble"
    /\ IF df_final.isNone
       THEN Fail(Raise("RuntimeError", "none_loaded", 0))
       ELSE /\ output' = [written |-> TRUE,
                          rows |-> FinalDf(df_final.rows, good_weights,
                                           bad_pred_cols)]
            /\ pc' = "done"
            /\ UNCHANGED error
    /\ UNCHANGED otherScripts
    /\ UNCHANGED <<metaExists, metadata, files, good_files, good_scores,
                   bad_files, good_weights, idx, df_final, good_pred_cols,
                   bad_pred_cols>>

Next ==
    \/ MetadataNotFound
    \/ NoScoredRows
    \/ NoGoodSubmissions
    \/ SelectSources
    \/ GoodModelNotFound
    \/ GoodModelMissingColumn
    \/ LoadGoodModel
    \/ SkipBadModel
    \/ LoadBadModel
    \/ Ensemble

Spec == Init /\ [][Next]_vars

\* ------------------------------------------- source selection on its own
\* The weights are a function of the metadata alone: SpecSelect runs steps
\* 1 to 3 over a wider choice of scores, among them scores below BAD_LIMIT,
\* between the tiers, and the best score 1.0.
SelectScoreCells ==
    ScoreCells \cup {Float(3, 10), Float(8, 10), Float(10, 10)}

InitSelect ==
    /\ metaExists \in BOOLEAN
    /\ metadata \in {[i \in FileNames |->
                        [output_file |-> i, kaggle_score |-> c[i]]] :
                        c \in [FileNames -> SelectScoreCells]}
    /\ ~metaExists => \A i \in FileNames : metadata[i].kaggle_score = NaN
    /\ files = <<>>
    /\ pc = "start"
    /\ good_files = <<>>
    /\ good_scores = <<>>
    /\ bad_files = <<>>
    /\ good_weights = <<>>
    /\ idx = 0
    /\ df_final = None
    /\ good_pred_cols = <<>>
    /\ bad_pred_cols = <<>>
    /\ error = NoError
    /\ output = Unwritten
    /\ top_files = <<>>
    /\ ensemble_df = None
    /\ pred_cols = <<>>
    /\ git = <<>>

NextSelect ==
    \/ MetadataNotFound
    \/ NoScoredRows
    \/ NoGoodSubmissions
    \/ SelectSources

SpecSelect == InitSelect /\ [][NextSelect]_vars

\* ======================================================== the properties
Range(s) == {s[i] : i \in DOMAIN s}

\* The row identifiers of a table or frame.
Ids(rows) == {rows[i].row_id : i \in DOMAIN rows}

WellFormed(content) == content.exists /\ HasColumns(content)

\* The good files and the bad files the run has read as prediction tables.
GoodLoaded == {f \in Range(good_files) : f \in DOMAIN files /\ WellFormed(files[f])}

BadLoaded == {f \in Range(bad_files) : f \in DOMAIN files /\ WellFormed(files[f])}

\* The row identifiers that every good table holds.
GoodJoinIds == {r \in RowIds : \A f \in GoodLoaded : r \in Ids(files[f].rows)}

\* The row identifiers that every loaded table, good or bad, holds.
JoinIds == {r \in GoodJoinIds : \A f \in BadLoaded : r \in Ids(files[f].rows)}

\* C1: a row identifier that is missing from at least one good source is not
\* in the written output, whatever the other good sources hold.
C1_GoodInnerJoin ==
    output.written =>
        \A r \in RowIds :
            (\E f \in Range(good_files) : r \notin Ids(files[f].rows))
                => r \notin Ids(output.rows)

\* Three good sources, a row two of them hold and one lacks, and an output
\* that still has another row.
C1_Witness ==
    /\ pc = "done"
    /\ Len(good_files) = 3
    /\ output.rows # <<>>
    /\ \E r \in RowIds :
        /\ Cardinality({f \in Range(good_files) : r \in Ids(files[f].rows)}) = 2
        /\ r \notin Ids(output.rows)

\* C2 as stated: every row identifier that all good sources hold is in the
\* written output, whatever the loaded bad sources hold.
C2_BadGapsTolerated ==
    output.written => \A r \in GoodJoinIds : r \in Ids(output.rows)

\* C2 amended: the output holds exactly the row identifiers that every good
\* source and every loaded bad source hold; a bad source that was skipped
\* (file missing or column missing) drops no row.
C2_BadJoinIsInner ==
    output.written => Ids(output.rows) = JoinIds

\* A row all good sources hold, dropped because a loaded bad source lacks it,
\* in a run that also skipped a bad source and still wrote a row.
C2_Witness ==
    /\ pc = "done"
    /\ \E r \in GoodJoinIds :
        /\ r \notin Ids(output.rows)
        /\ \E f \in BadLoaded : r \notin Ids(files[f].rows)
    /\ \E f \in Range(bad_files) : ~WellFormed(files[f])
    /\ output.rows # <<>>

\* C3 as stated: a run whose good sources share no row identifier never
\* completes and never writes an output.
C3_EmptyJoinFails ==
    (/\ good_files # <<>>
     /\ Range(good_files) \subseteq GoodLoaded
     /\ GoodJoinIds = {})
        => pc # "done" /\ ~output.written

GoodPrefix(i) == {good_files[k] : k \in 1..i}

\* C5: the good files are those of the good metadata rows in metadata order;
\* the good loop opens them in that order; the run fails at the first one
\* that is missing or lacks a column, the error names it, no other file is
\* opened after it, and a failed run takes no further step.
C5_FirstBadGoodSourceFails ==
    /\ \A i, j \in DOMAIN good_files : i < j => good_files[i] < good_files[j]
    /\ (pc # "start" /\ error.msg \notin {"metadata", "no_score", "no_good"})
        => Range(good_files) =
             {i \in FileNames : FGeq(metadata[i].kaggle_score, MIN_SCORE)}
    /\ pc = "load_good" =>
        /\ DOMAIN files = GoodPrefix(idx)
        /\ \A f \in GoodPrefix(idx) : WellFormed(files[f])
    /\ (pc = "failed" /\ error.path # 0) =>
        /\ error.path = good_files[idx + 1]
        /\ ~WellFormed(files[error.path])
        /\ DOMAIN files = GoodPrefix(idx + 1)
        /\ \A f \in GoodPrefix(idx) : WellFormed(files[f])
    /\ (\E f \in DOMAIN files : f \in Range(good_files) /\ ~WellFormed(files[f]))
        => pc = "failed" /\ error.path # 0
    /\ pc = "failed" => ~ENABLED Next

\* The second of three good files is the one that fails: the first was
\* loaded, the third is never opened.
C5_Witness ==
    /\ pc = "failed"
    /\ Len(good_files) = 3
    /\ error.path = good_files[2]
    /\ DOMAIN files = {good_files[1], good_files[2]}

\* C6 as stated: a bad-tier file that is missing or lacks a column ends the
\* run with an error naming it, and no output is written.
C6_BadSourceErrorFatal ==
    \A f \in Range(bad_files) :
        (f \in DOMAIN files /\ ~WellFormed(files[f]))
            => pc = "failed" /\ error.path = f /\ ~output.written

\* C6 amended: a missing or malformed file is fatal for a good-tier source
\* only.  A bad-tier file that is missing or lacks a column is skipped: the
\* run raises nothing for it, gives it no column, goes on, and the output it
\* writes holds the rows of the join of the other sources.
C6_BadSourceSkipped ==
    /\ \A f \in Range(good_files) :
        (f \in DOMAIN files /\ ~WellFormed(files[f]))
            => pc = "failed" /\ error.path = f /\ ~output.written
    /\ \A i \in DOMAIN bad_files :
        (bad_files[i] \in DOMAIN files /\ ~WellFormed(files[bad_files[i]]))
            => /\ pc \in {"load_bad", "ensemble", "done"}
               /\ error = NoError
               /\ (i - 1) \notin Range(bad_pred_cols)
               /\ pc = "done" => output.written /\ Ids(output.rows) = JoinIds
    /\ Len(bad_pred_cols) = Cardinality(BadLoaded)

\* One bad file skipped, another one loaded, and an output with a row.
C6_Witness ==
    /\ pc = "done"
    /\ output.rows # <<>>
    /\ \E f \in Range(bad_files) : ~files[f].exists
    /\ BadLoaded # {}

\* No metadata row has a score >= MIN_SCORE.
NoGoodRow == \A i \in FileNames : ~FGeq(metadata[i].kaggle_score, MIN_SCORE)

\* C7: a metadata row without a score is in neither tier; and when no row
\* has a score >= MIN_SCORE the run ends in a ValueError without opening any
\* prediction file, whatever rows the bad tier would hold.
C7_EmptyGoodTierFails ==
    /\ \A f \in Range(good_files) \cup Range(bad_files) :
        notna(metadata[f].kaggle_score)
    /\ (metaExists /\ NoGoodRow) =>
        /\ pc \in {"start", "failed"}
        /\ pc = "failed" => error.raised = "ValueError" /\ error.path = 0
        /\ files = <<>>
        /\ good_files = <<>> /\ bad_files = <<>>
        /\ ~output.written

\* The run failed for want of a good row although the metadata holds a row
\* of bad score, a row of a score in neither tier and a row without score.
C7_Witness ==
    /\ pc = "failed"
    /\ error.msg = "no_good"
    /\ \E i \in FileNames : FLeq(metadata[i].kaggle_score, BAD_LIMIT)
    /\ \E i \in FileNames : ~notna(metadata[i].kaggle_score)
    /\ \E i \in FileNames :
        /\ notna(metadata[i].kaggle_score)
        /\ ~FLeq(metadata[i].kaggle_score, BAD_LIMIT)

\* The label file f gives row identifier r.
LabelIn(f, r) ==
    (CHOOSE row \in Range(files[f].rows) : row.row_id = r).target

\* Sum_i w_i * label_i over the good sources, from the source tables.
WeightedGoodVote(r) ==
    FSum([k \in DOMAIN good_files |->
            FMul(good_weights[k], AsFloat(LabelIn(good_files[k], r)))])

\* The loaded bad sources that have a value for row r.
Covering(r) == {f \in BadLoaded : r \in Ids(files[f].rows)}

\* The unweighted mean of the labels of the bad sources covering r; 0 when
\* none does.
MeanBadVote(r) ==
    IF Covering(r) = {} THEN Float(0, 1)
    ELSE Float(Cardinality({f \in Covering(r) : LabelIn(f, r) = 1}),
               Cardinality(Covering(r)))

\* g - w * b >= t over the rationals, by cross-multiplication.
AtLeastThreshold(g, w, b, t) ==
    (g.num * w.den * b.den - w.num * b.num * g.den) * t.den
        >= t.num * g.den * w.den * b.den

\* C8: the label of every output row is 1 exactly when
\* good_vote - BAD_WEIGHT * bad_vote >= THRESHOLD, and 0 otherwise.
C8_LabelIsThresholdedScore ==
    output.written =>
        \A i \in DOMAIN output.rows :
            LET r == output.rows[i].row_id
            IN  /\ output.rows[i].target \in {0, 1}
                /\ output.rows[i].target = 1
                     <=> AtLeastThreshold(WeightedGoodVote(r), BAD_WEIGHT,
                                          MeanBadVote(r), THRESHOLD)

\* An output with a row whose final score is exactly THRESHOLD, labelled 1,
\* and a row whose good vote alone reaches THRESHOLD but which the bad vote
\* pulls below it, labelled 0.
C8_Witness ==
    /\ pc = "done"
    /\ \E i \in DOMAIN output.rows :
        LET r == output.rows[i].row_id
        IN  /\ FSub(WeightedGoodVote(r), FMul(BAD_WEIGHT, MeanBadVote(r)))
                 = THRESHOLD
            /\ output.rows[i].target = 1
    /\ \E i \in DOMAIN output.rows :
        LET r == output.rows[i].row_id
        IN  /\ FGeq(WeightedGoodVote(r), THRESHOLD)
            /\ Covering(r) # {}
            /\ output.rows[i].target = 0

Ascending(rows) ==
    \A i \in 1..(Len(rows) - 1) : rows[i].row_id < rows[i + 1].row_id

\* C9: a written output has one row for each row identifier of the join and
\* no other row, in ascending order of identifier, each label 0 or 1.
C9_OutputShape ==
    output.written =>
        /\ Ascending(output.rows)
        /\ Ids(output.rows) = JoinIds
        /\ Ids(output.rows) = Ids(df_final.rows)
        /\ Len(output.rows) = Cardinality(JoinIds)
        /\ \A i \in DOMAIN output.rows : output.rows[i].target \in {0, 1}

\* Two rows written in ascending order from a merged frame that was not.
C9_Witness ==
    /\ pc = "done"
    /\ Len(output.rows) = 2
    /\ ~Ascending(df_final.rows)

\* The metadata rows of the good tier.
GoodRows == {i \in FileNames : FGeq(metadata[i].kaggle_score, MIN_SCORE)}

\* Sum of score^ALPHA over the metadata rows S.
RECURSIVE PowerSum(_)
PowerSum(S) ==
    IF S = {} THEN Float(0, 1)
    ELSE LET i == CHOOSE j \in S : TRUE
         IN  FAdd(FPow(metadata[i].kaggle_score, ALPHA), PowerSum(S \ {i}))

MajoritySources == 4

TOP_N == 3

\* The kaggle_score cells of those rows: blank or one of two scores.
MajorityScoreCells == {NaN, Float(7, 10), Float(9, 10)}

InitMajority ==
    /\ metaExists \in BOOLEAN
    /\ metadata \in {[i \in 1..MajoritySources |->
                        [output_file |-> i, kaggle_score |-> c[i]]] :
                        c \in [1..MajoritySources -> MajorityScoreCells]}
    /\ ~metaExists =>
        \A i \in 1..MajoritySources : metadata[i].kaggle_score = NaN
    /\ files = <<>>
    /\ pc = "start"
    /\ idx = 0
    /\ error = NoError
    /\ output = Unwritten
    /\ top_files = <<>>
    /\ ensemble_df = None
    /\ pred_cols = <<>>
    /\ git = <<>>
    /\ good_files = <<>>
    /\ good_scores = <<>>
    /\ bad_files = <<>>
    /\ good_weights = <<>>
    /\ df_final = None
    /\ good_pred_cols = <<>>
    /\ bad_pred_cols = <<>>

NonIncreasing(meta) ==
    \A i \in 1..(Len(meta) - 1) :
        FGeq(meta[i].kaggle_score, meta[i + 1].kaggle_score)

\* meta.sort_values("kaggle_score", ascending=False).  The call names no
\* kind, so pandas sorts with its default, quicksort, which is not stable:
\* the result is some arrangement of the rows in non-increasing score, and
\* rows of equal score come in an order the numpy build decides.
SortValuesDescending(meta) ==
    {s \in {[i \in DOMAIN meta |-> meta[p[i]]] :
              p \in {q \in InjSeqs(DOMAIN meta) : Len(q) = Len(meta)}} :
        NonIncreasing(s)}

\* DataFrame.head(n)
FrameHead(meta, n) == SubSeq(meta, 1, IF Len(meta) < n THEN Len(meta) ELSE n)

MajorityMetadataNotFound ==
    /\ pc = "start"
    /\ ~metaExists
    /\ Fail(Raise("FileNotFoundError", "metadata", 0))
    /\ UNCHANGED <<weightedLocals, git>>
    /\ UNCHANGED <<metaExists, metadata, files, idx, top_files, ensemble_df,
                   pred_cols>>

MajorityNoScoredRows ==
    /\ pc = "start"
    /\ metaExists
    /\ Scored(metadata) = <<>>
    /\ Fail(Raise("ValueError", "no_score", 0))
    /\ UNCHANGED <<weightedLocals, git>>
    /\ UNCHANGED <<metaExists, metadata, files, idx, top_files, ensemble_df,
                   pred_cols>>

\* Step 2: sort, head(TOP_N) (with a warning, not an error, when fewer than
\* TOP_N rows have a score), and the list of their files.
PickTopN ==
    /\ pc = "start"
    /\ metaExists
    /\ Scored(metadata) # <<>>
    /\ \E meta \in SortValuesDescending(Scored(metadata)) :
        top_files' = OutputFiles(FrameHead(meta, TOP_N))
    /\ pc' = "load"
    /\ idx' = 0
    /\ UNCHANGED <<weightedLocals, git>>
    /\ UNCHANGED <<metaExists, metadata, files, ensemble_df, pred_cols, error,
                   output>>

\* Where main() goes after iteration idx of the load loop.
AfterLoad ==
    IF idx + 1 < Len(top_files)
    THEN pc' = "load" /\ idx' = idx + 1
    ELSE pc' = "vote" /\ idx' = 0

SubmissionNotFound ==
    /\ pc = "load"
    /\ \E content \in FileContents :
        /\ ~content.exists
        /\ Open(top_files[idx + 1], content)
    /\ Fail(Raise("FileNotFoundError", "not_found", top_files[idx + 1]))
    /\ UNCHANGED <<weightedLocals, git>>
    /\ UNCHANGED <<metaExists, metadata, idx, top_files, ensemble_df,
                   pred_cols>>

SubmissionMissingColumn ==
    /\ pc = "load"
    /\ \E content \in FileContents :
        /\ content.exists
        /\ ~HasColumns(content)
        /\ Open(top_files[idx + 1], content)
        /\ Fail(Raise("ValueError",
                      IF ID_COL \notin content.columns
                      THEN "no_id_col" ELSE "no_pred_col",
                      top_files[idx + 1]))
    /\ UNCHANGED <<weightedLocals, git>>
    /\ UNCHANGED <<metaExists, metadata, idx, top_files, ensemble_df,
                   pred_cols>>

\* The frame's prediction cells pred_0, pred_1, ... are the cells `good` of
\* its rows.
LoadSubmission ==
    /\ pc = "load"
    /\ \E content \in FileContents :
        /\ content.exists
        /\ HasColumns(content)
        /\ Open(top_files[idx + 1], content)
        /\ ensemble_df' = MergeGood(ensemble_df, content.rows)
    /\ pred_cols' = Append(pred_cols, idx)
    /\ AfterLoad
    /\ UNCHANGED <<weightedLocals, git>>
    /\ UNCHANGED <<metaExists, metadata, top_files, error, output>>

\* ensemble_df[pred_cols].sum(axis=1)
RECURSIVE SumVotes(_)
SumVotes(cells) ==
    IF cells = <<>> THEN 0 ELSE Head(cells) + SumVotes(Tail(cells))

\* (ensemble_df["sum_votes"] >= 2).astype(int)
MajorityLabel(sum_votes) == IF sum_votes >= 2 THEN 1 ELSE 0

\* ensemble_df[[ID_COL, PRED_COL_NAME]] after step 4.
Voted(rows) ==
    [i \in DOMAIN rows |->
        [row_id |-> rows[i].row_id,
         target |-> MajorityLabel(SumVotes(rows[i].good))]]

\* Steps 4 and 5: the None test, the votes, the label and to_csv.
MajorityVote ==
    /\ pc = "vote"
    /\ IF ensemble_df.isNone
       THEN Fail(Raise("RuntimeError", "none_loaded", 0))
       ELSE /\ output' = [written |-> TRUE,
                          rows |-> SortValues(Voted(ensemble_df.rows))]
            /\ pc' = "done"
            /\ UNCHANGED error
    /\ UNCHANGED <<weightedLocals, git>>
    /\ UNCHANGED <<metaExists, metadata, files, idx, top_files, ensemble_df,
                   pred_cols>>

NextMajority ==
    \/ MajorityMetadataNotFound
    \/ MajorityNoScoredRows
    \/ PickTopN
    \/ SubmissionNotFound
    \/ SubmissionMissingColumn
    \/ LoadSubmission
    \/ MajorityVote

SpecMajority == InitMajority /\ [][NextMajority]_vars

\* ------------------------------------------------------------ properties
\* The files of the first min(TOP_N, number of scored rows) rows of the
\* scored metadata sorted by score, best first, by a stable sort.
StableTopFiles ==
    OutputFiles(FrameHead(ByScoreDescending(Scored(metadata)), TOP_N))

\* C11: the sources used are the min(TOP_N, number of scored records)
\* highest-scoring records in descending score order, records of equal score
\* in their original metadata order, so that metadata order decides which of
\* several tied records survives the truncation.
C11_StableTopN ==
    pc \in {"load", "vote", "done"} => top_files = StableTopFiles

\* The number of the used sources that predict 1 for row r.
OnesIn(r) ==
    Cardinality({k \in DOMAIN top_files : LabelIn(top_files[k], r) = 1})

\* C12: whatever the number k of sources used, 1 <= k <= TOP_N, a row of the
\* output is labelled 1 exactly when a strict majority of the k used sources
\* predict 1 for it.
C12_StrictMajorityOfUsed ==
    output.written =>
        \A i \in DOMAIN output.rows :
            output.rows[i].target = 1
                <=> 2 * OnesIn(output.rows[i].row_id) > Len(top_files)

\* =============================================== extract_submissions.py
\* Number of commits made to the repository in a behaviour.
MaxCommits == 2

\* The CSVs that ever existed under SUBMISSIONS_DIR, as sorted() orders
\* them.  The two have the same Path(path).stem.
Paths == <<"submissions/a.csv", "submissions/old/a.csv">>

\* Path(path).stem
Stem(path) == "a"

\* A commit message is modelled by what the script reads from it: the list
\* re.findall(r"\d+\.\d+", msg) of the decimal numbers it holds.
Messages == {<<>>, <<Float(9, 10)>>, <<Float(2, 1), Float(7, 10)>>}

\* What one commit does to the tracked CSVs: the paths it changes, and those
\* of them it deletes (git show <sha>:<path> fails for these).
Commits ==
    {c \in [changed : SUBSET Range(Paths), deleted : SUBSET Range(Paths),
            msg : Messages] :
        c.changed # {} /\ c.deleted \subseteq c.changed}

\* The scores a person types into the kaggle_score column.
ManualScores == {Float(8, 10)}

\* git is the list of the commits, oldest first; the abbreviated hash %h and
\* the date %cd of a commit are modelled by its position in the list.
InitExtract ==
    /\ git = <<>>
    /\ metaExists = FALSE
    /\ metadata = <<>>
    /\ files = <<>>
    /\ pc = "start"
    /\ idx = 0
    /\ error = NoError
    /\ output = Unwritten
    /\ top_files = <<>>
    /\ ensemble_df = None
    /\ pred_cols = <<>>
    /\ good_files = <<>>
    /\ good_scores = <<>>
    /\ bad_files = <<>>
    /\ good_weights = <<>>
    /\ df_final = None
    /\ good_pred_cols = <<>>
    /\ bad_pred_cols = <<>>

extractUnused ==
    <<weightedLocals, top_files, ensemble_df, pred_cols, idx, error, output>>

\* (original_path, commit_hash) of a metadata row
Key(row) == <<row.original_path, row.commit_hash>>

\* A run that never loads the metadata it finds.
ExistingKeysNotLoaded == {}

\* existing_keys after section 0
ExistingKeys ==
    IF metaExists THEN {Key(metadata[i]) : i \in DOMAIN metadata} ELSE {}

\* sorted(all_paths): the paths some commit changes.
AllPaths == SelectSeq(Paths, LAMBDA p : \E n \in DOMAIN git : p \in git[n].changed)

\* The lines of git log --pretty=format:"%h|%cd|%s" -- path for the first n
\* commits, newest first.
RECURSIVE FileLog(_, _)
FileLog(path, n) ==
    IF n = 0 THEN <<>>
    ELSE (IF path \in git[n].changed
          THEN <<[sha |-> n, date |-> n, msg |-> git[n].msg]>>
          ELSE <<>>)
         \o FileLog(path, n - 1)

\* The first number of the message between 0.3 and 1.0, or blank.
RECURSIVE KaggleScore(_)
KaggleScore(numbers) ==
    IF numbers = <<>> THEN NaN
    ELSE IF FLeq(Float(3, 10), Head(numbers)) /\ FLeq(Head(numbers), Float(1, 1))
         THEN Head(numbers)
         ELSE KaggleScore(Tail(numbers))

\* out_name: stem, hash and the snippet cut from the message
OutName(path, line) ==
    [stem |-> Stem(path), sha |-> line.sha, snippet |-> line.msg]

MetadataRow(path, line) ==
    [output_file |-> OutName(path, line),
     original_path |-> path,
     original_name |-> Stem(path),
     commit_hash |-> line.sha,
     date |-> line.date,
     commit_message |-> line.msg,
     kaggle_score |-> KaggleScore(line.msg)]

\* The rows the inner loop appends for the lines of one file's log.
RECURSIVE RowsOfLog(_, _)
RowsOfLog(path, log) ==
    IF log = <<>> THEN <<>>
    ELSE (IF <<path, Head(log).sha>> \in ExistingKeys
          THEN <<>>
          ELSE IF path \in git[Head(log).sha].deleted
          THEN <<>>
          ELSE <<MetadataRow(path, Head(log))>>)
         \o RowsOfLog(path, Tail(log))

\* new_metadata_rows after section 2
RECURSIVE NewMetadataRows(_)
NewMetadataRows(paths) ==
    IF paths = <<>> THEN <<>>
    ELSE RowsOfLog(Head(paths), FileLog(Head(paths), Len(git)))
         \o NewMetadataRows(Tail(paths))

\* analyzing/ after the versions of the new rows are written, in order, each
\* over whatever file has its name.
RECURSIVE WriteVersions(_, _)
WriteVersions(dir, rows) ==
    IF rows = <<>> THEN dir
    ELSE WriteVersions(
            (Head(rows).output_file :>
                [path |-> Head(rows).original_path,
                 sha |-> Head(rows).commit_hash])
            @@ dir,
            Tail(rows))

\* One run of the script.
ExtractRun ==
    /\ LET new_metadata_rows == NewMetadataRows(AllPaths)
       IN  /\ files' = WriteVersions(files, new_metadata_rows)
           /\ IF new_metadata_rows = <<>>
              THEN UNCHANGED <<metaExists, metadata>>
              ELSE /\ metaExists' = TRUE
                   /\ metadata' = metadata \o new_metadata_rows
    /\ pc' = "ran"
    /\ UNCHANGED git
    /\ UNCHANGED extractUnused

\* Someone commits a change to the tracked CSVs.
Commit ==
    /\ Len(git) < MaxCommits
    /\ \E c \in Commits : git' = Append(git, c)
    /\ pc' = "start"
    /\ UNCHANGED <<metaExists, metadata, files>>
    /\ UNCHANGED extractUnused

\* Someone types a score into the kaggle_score cell of a row.
FillScore ==
    /\ \E i \in DOMAIN metadata, score \in ManualScores :
        /\ metadata[i].kaggle_score # score
        /\ metadata' = [metadata EXCEPT ![i].kaggle_score = score]
    /\ pc' = IF pc = "start" THEN "start" ELSE "edited"
    /\ UNCHANGED <<git, metaExists, files>>
    /\ UNCHANGED extractUnused

NextExtract ==
    \/ ExtractRun
    \/ Commit
    \/ FillScore

SpecExtract == InitExtract /\ [][NextExtract]_vars

\* ------------------------------------------------------------ properties
NoDuplicateKeys ==
    \A i, j \in DOMAIN metadata :
        Key(metadata[i]) = Key(metadata[j]) => i = j

\* The rows the file held are still its first rows, cell for cell.
RowsKept ==
    /\ Len(metadata') >= Len(metadata)
    /\ SubSeq(metadata', 1, Len(metadata)) = metadata

\* No row past the old end of the file has the key of a row the file held.
NoKeyAppendedAgain ==
    \A j \in (Len(metadata) + 1)..Len(metadata') :
        \A i \in DOMAIN metadata : Key(metadata'[j]) # Key(metadata[i])

\* C13: the metadata file is append-only and duplicate-free.  No two rows
\* have the same (original_path, commit_hash); a run (a step to pc = "ran")
\* keeps every row the file held, a hand-typed kaggle_score included, and
\* appends no row for a key the file held; and a run made when no commit
\* came after the last run (pc is "ran" or "edited") leaves the file as it
\* is.
C13_AppendOnlyNoDuplicates ==
    /\ []NoDuplicateKeys
    /\ [][pc' = "ran" =>
            /\ RowsKept
            /\ NoKeyAppendedAgain
            /\ (pc \in {"ran", "edited"} => metadata' = metadata)]_vars

\* The last thing that happened is a run, the file holds a row with a
\* hand-typed score that is not the one its commit message gives, and after
\* it a row of a later commit to the same path, appended by a later run.
C13_Witness ==
    /\ pc = "ran"
    /\ \E i, j \in DOMAIN metadata :
        /\ i < j
        /\ metadata[i].kaggle_score \in ManualScores
        /\ metadata[i].kaggle_score # KaggleScore(metadata[i].commit_message)
        /\ metadata[j].original_path = metadata[i].original_path
        /\ metadata[j].commit_hash > metadata[i].commit_hash

====
